---- MODULE Spec2Model ----
\* Verification model of playwright-mcp-smart:
\*   - Response (bounded response construction: token budget, snapshot
\*     truncation, serialization), src/unnamed/part_000 lines 23-328;
\*   - ClaudeDelegate (conversation log -> provider message list, tool-result
\*     batching), src/unnamed/part_000 lines 352-527;
\*   - the list tools browser_console_messages (src/src/tools/console.ts) and
\*     browser_network_requests (src/unnamed/part_000 lines 550-613);
\*   - the two browser_evaluate handlers of src/src/tools/pdf.ts.
\* Strings are modelled as sequences of chunks (source tag, id, length), so that
\* length arithmetic, prefixes (substring) and concatenation are computed as the
\* code computes them while the text content stays symbolic.
EXTENDS Integers, Sequences, FiniteSets, TLC

VARIABLES
  \* ---- ClaudeDelegate / conversation -------------------------------------
  phase,           \* position of the driving loop
  messages,        \* conversation.messages (generic log)
  tools,           \* conversation.tools
  oneShot,         \* the oneShot argument of createConversation
  toolCalls,       \* tool calls returned by the last makeApiCall
  claudeMessages,  \* provider message list built by the last makeApiCall
  sentLog,         \* the log that list was built from
  nextId,          \* provider-side counter of issued tool_use ids
  iteration,       \* number of makeApiCall invocations so far
  apiError,        \* whether the last makeApiCall rejected (provider failure)
  handedResults,   \* the results argument of the last addToolResults
  doneChecks,      \* checkDoneToolCall of each tool call of the last turn
  \* ---- Response ----------------------------------------------------------
  pc,               \* lifecycle: "handling" -> "finished" -> "serialized"
  context,          \* the Context: open tabs, config.imageResponses
  _result,
  _code,
  _images,
  _includeSnapshot,
  _includeTabs,
  _tabSnapshot,
  _isError,         \* FALSE stands for undefined (the code never stores false)
  serialized,       \* value returned by serialize()
  captured,         \* the snapshot captureSnapshot() returned to finish()
  tokenCheck,       \* input length and result of the last checkTokenLimit call
  errorCalled,      \* whether addError has been called
  \* ---- tool invocation ---------------------------------------------------
  toolName,         \* Response.toolName: the tool being handled ("" for none)
  toolArgs,         \* Response.toolArgs: the params of the invocation
  tab,              \* the Tab handed to the handler: what the page recorded
  variant,          \* which of the two browser_evaluate handlers is built in
  handlerPc,        \* "start" -> "returned": position of the tool's handle()
  attempts          \* number of invocations of the tool so far

delegateVars ==
  <<phase, messages, tools, oneShot, toolCalls, claudeMessages, sentLog,
    nextId, iteration, apiError, handedResults, doneChecks>>

responseVars ==
  <<pc, context, _result, _code, _images, _includeSnapshot, _includeTabs,
    _tabSnapshot, _isError, serialized, captured, tokenCheck, errorCalled>>

toolVars == <<toolName, toolArgs, tab, variant, handlerPc, attempts>>

vars == <<delegateVars, responseVars, toolVars>>

\* ---------------------------------------------------------------- bounds
MaxAttempts == 2
MaxTurns == 3
MaxCalls == 2

\* ---------------------------------------------------------------- helpers
Range(s) == {s[i] : i \in 1..Len(s)}

\* completion orders of n sibling tool calls: issue order and its reverse
Orders(n) == {[k \in 1..n |-> k], [k \in 1..n |-> n + 1 - k]}

\* ======================================================================
\* ClaudeDelegate
\* ======================================================================
Tasks == {"task"}
ToolNames == {"browser_click", "done"}
AssistantTexts == {"", "thinking"}
McpTools == <<"browser_click", "browser_snapshot">>

UserMessage(content) ==
  [role |-> "user", content |-> content, toolCalls |-> <<>>,
   toolCallId |-> 0, isError |-> FALSE]

\* toolCalls = <<>> stands for toolCalls: undefined (line 501 never stores an
\* empty array)
AssistantMessage(content, calls) ==
  [role |-> "assistant", content |-> content, toolCalls |-> calls,
   toolCallId |-> 0, isError |-> FALSE]

ToolMessage(result) ==
  [role |-> "tool", content |-> result.content, toolCalls |-> <<>>,
   toolCallId |-> result.toolCallId, isError |-> result.isError]

ToolCall(id, name, arguments) ==
  [id |-> id, name |-> name, arguments |-> arguments]

\* Provider content blocks and messages
TextBlock(text) ==
  [type |-> "text", text |-> text, id |-> 0, name |-> "", input |-> "",
   is_error |-> FALSE]

ToolUseBlock(tc) ==
  [type |-> "tool_use", text |-> "", id |-> tc.id, name |-> tc.name,
   input |-> tc.arguments, is_error |-> FALSE]

ToolResultBlock(m) ==
  [type |-> "tool_result", text |-> m.content, id |-> m.toolCallId,
   name |-> "", input |-> "", is_error |-> m.isError]

ClaudeText(role, text) ==
  [role |-> role, isArray |-> FALSE, text |-> text, blocks |-> <<>>]

ClaudeBlocks(role, blocks) ==
  [role |-> role, isArray |-> TRUE, text |-> "", blocks |-> blocks]

\* the value null
Null == [isNull |-> TRUE, result |-> ""]

\* (mutant) the name of the tool call is not tested
CheckDoneToolCall_AnyName(toolCall) ==
  [isNull |-> FALSE, result |-> toolCall.arguments]

\* checkDoneToolCall(toolCall); the arguments of a call are modelled by their
\* result member ("" when they have none)
CheckDoneToolCall(toolCall) ==
  IF toolCall.name = "done"
  THEN [isNull |-> FALSE, result |-> toolCall.arguments]
  ELSE Null

\* (mutant) the done tool is pushed whatever oneShot is
LlmTools_AlwaysDone(mcpTools, isOneShot) ==
  Append([i \in 1..Len(mcpTools) |->
            [name |-> mcpTools[i], description |-> "", noParams |-> FALSE]],
         [name |-> "done",
          description |-> "Call this tool when the task is complete.",
          noParams |-> TRUE])

\* createConversation: the tool list
LLMTool(name) == [name |-> name, description |-> "", noParams |-> FALSE]

DoneTool == [name |-> "done", description |-> "Call this tool when the task is complete.", noParams |-> TRUE]

LlmTools(mcpTools, isOneShot) ==
  LET mapped == [i \in 1..Len(mcpTools) |-> LLMTool(mcpTools[i])]
  IN  IF ~isOneShot THEN Append(mapped, DoneTool) ELSE mapped

\* [...conversation.messages].reverse().find(m => m.role === 'assistant'):
\* index of the last assistant message of the whole log, 0 when there is none
LastAssistantIndex(log) ==
  LET idx == {i \in 1..Len(log) : log[i].role = "assistant"}
  IN  IF idx = {} THEN 0 ELSE CHOOSE i \in idx : \A j \in idx : j <= i

\* allToolCallIds.every(id => collectedIds.includes(id)), guarded by
\* lastAssistantMessage && lastAssistantMessage.toolCalls
ShouldFlush(log, pending) ==
  LET la == LastAssistantIndex(log)
  IN  /\ la # 0
      /\ Len(log[la].toolCalls) > 0
      /\ \A k \in 1..Len(log[la].toolCalls) :
           \E p \in 1..Len(pending) : pending[p].id = log[la].toolCalls[k].id

\* the assistant branch of the loop: text block when content is non-empty,
\* then one tool_use block per tool call
AssistantContent(m) ==
  (IF m.content # "" THEN <<TextBlock(m.content)>> ELSE <<>>)
    \o [k \in 1..Len(m.toolCalls) |-> ToolUseBlock(m.toolCalls[k])]

\* (mutant) the buffer is not reset at an assistant message with tool calls
PendingAfterAssistant_NoReset(m, pending) == pending

\* pendingToolResults after an assistant message: reset when it has tool calls
PendingAfterAssistant(m, pending) ==
  IF Len(m.toolCalls) > 0 THEN <<>> ELSE pending

\* One iteration of for (const message of conversation.messages);
\* st = [out |-> claudeMessages, pending |-> pendingToolResults]
ConvertStep(log, m, st) ==
  IF m.role = "user" THEN
    [st EXCEPT !.out = Append(@, ClaudeText("user", m.content))]
  ELSE IF m.role = "assistant" THEN
    [out |-> Append(st.out, ClaudeBlocks("assistant", AssistantContent(m))),
     pending |-> PendingAfterAssistant(m, st.pending)]
  ELSE
    LET pending == Append(st.pending, ToolResultBlock(m))
    IN  IF ShouldFlush(log, pending)
        THEN [out |-> Append(st.out, ClaudeBlocks("user", pending)),
              pending |-> <<>>]
        ELSE [out |-> st.out, pending |-> pending]

RECURSIVE ConvertLoop(_, _, _)
ConvertLoop(log, i, st) ==
  IF i > Len(log) THEN st
  ELSE ConvertLoop(log, i + 1, ConvertStep(log, log[i], st))

\* The message-conversion part of makeApiCall, with the final flush
BuildClaudeMessages(log) ==
  LET st == ConvertLoop(log, 1, [out |-> <<>>, pending |-> <<>>])
  IN  IF Len(st.pending) > 0
      THEN Append(st.out, ClaudeBlocks("user", st.pending))
      ELSE st.out

\* ---------------------------------------------------------------- actions
CreateConversation ==
  /\ phase = "Idle"
  /\ \E task \in Tasks, os \in BOOLEAN :
       /\ messages' = <<UserMessage(task)>>
       /\ tools' = LlmTools(McpTools, os)
       /\ oneShot' = os
  /\ phase' = "AwaitingModel"
  /\ UNCHANGED <<toolCalls, claudeMessages, sentLog, nextId, iteration>>
  /\ UNCHANGED <<apiError, handedResults, doneChecks>>
  /\ UNCHANGED <<responseVars, toolVars>>

\* makeApiCall whose provider call succeeds: the response holds text and n
\* tool_use blocks with fresh ids
MakeApiCall ==
  /\ phase = "AwaitingModel"
  /\ iteration < MaxTurns
  /\ claudeMessages' = BuildClaudeMessages(messages)
  /\ sentLog' = messages
  /\ iteration' = iteration + 1
  /\ \E n \in 0..MaxCalls, text \in AssistantTexts :
       \E names \in [1..n -> ToolNames] :
         LET llmToolCalls ==
               [k \in 1..n |->
                  ToolCall(nextId + k, names[k],
                           IF names[k] = "done" THEN "X" ELSE "")]
         IN  /\ messages' = Append(messages, AssistantMessage(text, llmToolCalls))
             /\ toolCalls' = llmToolCalls
             /\ nextId' = nextId + n
             /\ phase' = IF n = 0 THEN "Done" ELSE "ExecutingTools"
  /\ apiError' = FALSE
  /\ UNCHANGED <<tools, oneShot, handedResults, doneChecks>>
  /\ UNCHANGED <<responseVars, toolVars>>

\* makeApiCall whose provider call throws: the list was built, nothing is
\* appended to the log
MakeApiCallFails ==
  /\ phase = "AwaitingModel"
  /\ iteration < MaxTurns
  /\ claudeMessages' = BuildClaudeMessages(messages)
  /\ sentLog' = messages
  /\ iteration' = iteration + 1
  /\ phase' = "Done"
  /\ apiError' = TRUE
  /\ UNCHANGED <<messages, tools, oneShot, toolCalls, nextId>>
  /\ UNCHANGED <<handedResults, doneChecks>>
  /\ UNCHANGED <<responseVars, toolVars>>

\* (mutant) the tool messages are put in front of the log
AppendToolResults_Unshift(log, results) ==
  [k \in 1..Len(results) |-> ToolMessage(results[k])] \o log

\* conversation.messages after addToolResults(conversation, results)
AppendToolResults(log, results) ==
  log \o [k \in 1..Len(results) |-> ToolMessage(results[k])]

\* The result lists the loop can hand to addToolResults for the tool calls of
\* one turn: one result per call, in a completion order, or in call order
\* with the last call failed
ResultLists(calls) ==
  {[k \in 1..Len(calls) |->
      [toolCallId |-> calls[p[k]].id, content |-> "ok", isError |-> FALSE]] :
     p \in Orders(Len(calls))}
  \cup
  {[k \in 1..Len(calls) |->
      [toolCallId |-> calls[k].id, content |-> "ok",
       isError |-> k = Len(calls)]]}

\* The loop executed every tool call of the turn and hands over one result per
\* call
AddToolResults ==
  /\ phase = "ExecutingTools"
  /\ \A k \in 1..Len(toolCalls) : CheckDoneToolCall(toolCalls[k]) = Null
  /\ \E results \in ResultLists(toolCalls) :
       /\ messages' = AppendToolResults(messages, results)
       /\ handedResults' = results
  /\ doneChecks' = [k \in 1..Len(toolCalls) |-> CheckDoneToolCall(toolCalls[k])]
  /\ phase' = IF oneShot THEN "Done" ELSE "AwaitingModel"
  /\ toolCalls' = <<>>
  /\ UNCHANGED <<tools, oneShot, claudeMessages, sentLog, nextId, iteration,
                 apiError>>
  /\ UNCHANGED <<responseVars, toolVars>>

\* One of the returned calls is the completion signal: the loop ends
Complete ==
  /\ phase = "ExecutingTools"
  /\ \E k \in 1..Len(toolCalls) : CheckDoneToolCall(toolCalls[k]) # Null
  /\ doneChecks' = [k \in 1..Len(toolCalls) |-> CheckDoneToolCall(toolCalls[k])]
  /\ phase' = "Done"
  /\ UNCHANGED <<messages, tools, oneShot, toolCalls, claudeMessages, sentLog,
                 nextId, iteration, apiError, handedResults>>
  /\ UNCHANGED <<responseVars, toolVars>>

InitDelegate ==
  /\ phase = "Idle"
  /\ messages = <<>>
  /\ tools = <<>>
  /\ oneShot = FALSE
  /\ toolCalls = <<>>
  /\ claudeMessages = <<>>
  /\ sentLog = <<>>
  /\ nextId = 0
  /\ iteration = 0
  /\ apiError = FALSE
  /\ handedResults = <<>>
  /\ doneChecks = <<>>

NextDelegate ==
  \/ CreateConversation
  \/ MakeApiCall
  \/ MakeApiCallFails
  \/ AddToolResults
  \/ Complete

\* ======================================================================
\* Text: a string is a sequence of chunks [src, id, len]; a chunk stands for
\* the first len characters (UTF-16 units) of the text named by (src, id)
\* ======================================================================
Chunk(src, id, len) == [src |-> src, id |-> id, len |-> len]

Str(src, id, len) == IF len = 0 THEN <<>> ELSE <<Chunk(src, id, len)>>

\* a string literal of the source, with its length
Lit(name, len) == Str(name, 0, len)

\* String.prototype.length (summed by halves: a joined list has thousands
\* of chunks)
RECURSIVE TextLen(_)
TextLen(t) ==
  IF t = <<>> THEN 0
  ELSE IF Len(t) = 1 THEN t[1].len
  ELSE TextLen(SubSeq(t, 1, Len(t) \div 2))
         + TextLen(SubSeq(t, Len(t) \div 2 + 1, Len(t)))

\* String.prototype.substring(0, n) / slice(0, n) for n >= 0
RECURSIVE Substring(_, _)
Substring(t, n) ==
  IF t = <<>> \/ n <= 0 THEN <<>>
  ELSE IF Head(t).len <= n
       THEN <<Head(t)>> \o Substring(Tail(t), n - Head(t).len)
       ELSE <<Chunk(Head(t).src, Head(t).id, n)>>

\* Array.prototype.join('\n')
RECURSIVE JoinLines(_)
JoinLines(lines) ==
  IF lines = <<>> THEN <<>>
  ELSE IF Len(lines) = 1 THEN lines[1]
  ELSE JoinLines(SubSeq(lines, 1, Len(lines) \div 2)) \o Lit("\\n", 1)
         \o JoinLines(SubSeq(lines, Len(lines) \div 2 + 1, Len(lines)))

\* number of decimal digits of n >= 0
RECURSIVE Digits(_)
Digits(n) == IF n < 10 THEN 1 ELSE 1 + Digits(n \div 10)

\* Number.prototype.toLocaleString(): digits with a separator per group of three
LocaleString(n) == Str("toLocaleString", n, Digits(n) + (Digits(n) - 1) \div 3)

\* template interpolation ${n} of a number
NumString(n) == Str("toString", n, Digits(n))

\* Math.ceil(a / b) for a >= 0, b > 0
Ceil(a, b) == (a + b - 1) \div b

\* ======================================================================
\* Response
\* ======================================================================
TOKEN_LIMIT == 22000

\* the message member of checkTokenLimit's over-limit result
TokenLimitMessage(estimatedTokens, totalPages) ==
  Lit("warn: content too large (about ", 12)
    \o LocaleString(estimatedTokens)
    \o Lit(" tokens), over the limit (", 15)
    \o LocaleString(TOKEN_LIMIT)
    \o Lit(" tokens). pages needed: ", 12)
    \o NumString(totalPages)
    \o Lit(" pages.", 4)

WithinLimit ==
  [needsPagination |-> FALSE, hasTotalPages |-> FALSE, totalPages |-> 0,
   message |-> <<>>]

\* (mutant) the limit test is >= instead of >
CheckTokenLimit_OffByOne(content) ==
  LET estimatedTokens == Ceil(TextLen(content), 4)
      totalPages == Ceil(estimatedTokens, TOKEN_LIMIT)
  IN  IF estimatedTokens >= TOKEN_LIMIT
      THEN [needsPagination |-> TRUE, hasTotalPages |-> TRUE,
            totalPages |-> totalPages,
            message |-> TokenLimitMessage(estimatedTokens, totalPages)]
      ELSE WithinLimit

\* checkTokenLimit(content); hasTotalPages = FALSE stands for an absent
\* totalPages (and message)
CheckTokenLimit(content) ==
  LET estimatedTokens == Ceil(TextLen(content), 4)
      totalPages == Ceil(estimatedTokens, TOKEN_LIMIT)
  IN  IF estimatedTokens > TOKEN_LIMIT
      THEN [needsPagination |-> TRUE, hasTotalPages |-> TRUE,
            totalPages |-> totalPages,
            message |-> TokenLimitMessage(estimatedTokens, totalPages)]
      ELSE WithinLimit

\* the record kept in tokenCheck for a call checkTokenLimit(content)
CheckRecord(content) ==
  [length |-> TextLen(content), result |-> CheckTokenLimit(content)]

NoCheck == [length |-> 0, result |-> WithinLimit]

\* the warning block of _createTruncatedSnapshot
SnapshotWarning(estimatedTokens) ==
  Lit("\\n\\n SNAPSHOT TRUNCATED: Page snapshot was too large (", 54)
    \o LocaleString(estimatedTokens)
    \o Lit(" tokens, limit: ", 16)
    \o LocaleString(TOKEN_LIMIT)
    \o Lit(").\\n\\nTo get a complete snapshot, ... --- TRUNCATED SNAPSHOT ABOVE ---", 357)

\* (mutant) the cut is taken at 100% of the limit instead of 80%
CreateTruncatedSnapshot_NoHeadroom(fullSnapshot) ==
  [fullSnapshot EXCEPT
     !.ariaSnapshot = Substring(@, TOKEN_LIMIT * 4)
                        \o SnapshotWarning(Ceil(TextLen(@), 4))]

\* _createTruncatedSnapshot(fullSnapshot, tokenCheck)
CreateTruncatedSnapshot(fullSnapshot) ==
  LET estimatedTokens == Ceil(TextLen(fullSnapshot.ariaSnapshot), 4)
      targetLength == TOKEN_LIMIT * 4
      truncationPoint == (targetLength * 8) \div 10
      truncatedAriaSnapshot ==
        Substring(fullSnapshot.ariaSnapshot, truncationPoint)
  IN  [fullSnapshot EXCEPT
         !.ariaSnapshot = truncatedAriaSnapshot \o SnapshotWarning(estimatedTokens)]

\* _tabSnapshot undefined
NoSnapshot ==
  [present |-> FALSE, url |-> <<>>, title |-> <<>>, ariaSnapshot |-> <<>>,
   consoleMessages |-> <<>>, downloads |-> <<>>, modalStates |-> <<>>]

\* what finish() stores for a captured snapshot
StoredSnapshot(tempSnapshot) ==
  IF tempSnapshot.present /\ TextLen(tempSnapshot.ariaSnapshot) > 0
  THEN IF CheckTokenLimit(tempSnapshot.ariaSnapshot).needsPagination
       THEN CreateTruncatedSnapshot(tempSnapshot)
       ELSE tempSnapshot
  ELSE tempSnapshot

\* trim(text, maxLength)
Trim(text, maxLength) ==
  IF TextLen(text) <= maxLength THEN text
  ELSE Substring(text, maxLength) \o Lit("...", 3)

DownloadLine(entry) ==
  IF entry.finished
  THEN Lit("- Downloaded file ", 18) \o entry.suggestedFilename
         \o Lit(" to ", 4) \o entry.outputFile
  ELSE Lit("- Downloading file ", 19) \o entry.suggestedFilename
         \o Lit(" ...", 4)

\* renderTabSnapshot(tabSnapshot)
RenderTabSnapshot(tabSnapshot) ==
  LET console ==
        IF Len(tabSnapshot.consoleMessages) > 0
        THEN <<Lit("### New console messages", 24)>>
               \o [i \in 1..Len(tabSnapshot.consoleMessages) |->
                     Lit("- ", 2) \o Trim(tabSnapshot.consoleMessages[i], 100)]
               \o <<<<>>>>
        ELSE <<>>
      downloads ==
        IF Len(tabSnapshot.downloads) > 0
        THEN <<Lit("### Downloads", 13)>>
               \o [i \in 1..Len(tabSnapshot.downloads) |->
                     DownloadLine(tabSnapshot.downloads[i])]
               \o <<<<>>>>
        ELSE <<>>
      page ==
        <<Lit("### Page state", 14),
          Lit("- Page URL: ", 12) \o tabSnapshot.url,
          Lit("- Page Title: ", 14) \o tabSnapshot.title,
          Lit("- Page Snapshot:", 16),
          Lit("[fence]yaml", 7),
          tabSnapshot.ariaSnapshot,
          Lit("[fence]", 3)>>
  IN  JoinLines(console \o downloads \o page)

\* renderModalStates(context, modalStates) of tab.js
RenderModalStates(modalStates) ==
  <<Lit("### Modal state", 15)>>
    \o [i \in 1..Len(modalStates) |->
          Lit("- [", 3) \o modalStates[i]
            \o Lit("]: can be handled by the tool", 32)]

TabLine(ctx, i) ==
  Lit("- ", 2) \o NumString(i - 1) \o Lit(":", 1)
    \o (IF ctx.currentTab = i THEN Lit(" (current)", 10) ELSE <<>>)
    \o Lit(" [", 2) \o Str("tab.lastTitle", i, 9) \o Lit("] (", 3)
    \o Str("tab.page.url", i, 24) \o Lit(")", 1)

\* (mutant) the single-tab case is not suppressed
RenderTabsMarkdown_NoSingleTabCheck(ctx, force) ==
  IF ctx.nTabs = 0 THEN
    <<Lit("### Open tabs", 13), Lit("No open tabs. Use ...", 74), <<>>>>
  ELSE
    <<Lit("### Open tabs", 13)>>
      \o [i \in 1..ctx.nTabs |-> TabLine(ctx, i)]
      \o <<<<>>>>

\* renderTabsMarkdown(tabs, force): the lines of the open-tabs listing
RenderTabsMarkdown(ctx, force) ==
  IF ctx.nTabs = 1 /\ ~force THEN <<>>
  ELSE IF ctx.nTabs = 0 THEN
    <<Lit("### Open tabs", 13), Lit("No open tabs. Use ...", 74), <<>>>>
  ELSE
    <<Lit("### Open tabs", 13)>>
      \o [i \in 1..ctx.nTabs |-> TabLine(ctx, i)]
      \o <<<<>>>>

\* (mutant) the snapshot branches are tested in the other order, so the page
\* state is rendered whenever a snapshot is stored and the modal states follow
FullResponse_PageStateFirst(ctx, result, code, includeSnapshot, includeTabs, tabSnapshot) ==
  LET resultLines ==
        IF Len(result) > 0
        THEN <<Lit("### Result", 10), JoinLines(result), <<>>>>
        ELSE <<>>
      codeLines ==
        IF Len(code) > 0
        THEN <<Lit("### Ran Playwright code\\n[fence]js\\n", 30)
                 \o JoinLines(code) \o Lit("\\n[fence]", 4),
               <<>>>>
        ELSE <<>>
      tabLines ==
        IF includeSnapshot \/ includeTabs
        THEN RenderTabsMarkdown(ctx, includeTabs)
        ELSE <<>>
      snapshotLines ==
        IF tabSnapshot.present
        THEN <<RenderTabSnapshot(tabSnapshot), <<>>>>
               \o (IF Len(tabSnapshot.modalStates) > 0
                   THEN RenderModalStates(tabSnapshot.modalStates) \o <<<<>>>>
                   ELSE <<>>)
        ELSE <<>>
  IN  JoinLines(resultLines \o codeLines \o tabLines \o snapshotLines)

\* the response array of serialize(), joined: fullResponse
FullResponse(ctx, result, code, includeSnapshot, includeTabs, tabSnapshot) ==
  LET resultLines ==
        IF Len(result) > 0
        THEN <<Lit("### Result", 10), JoinLines(result), <<>>>>
        ELSE <<>>
      codeLines ==
        IF Len(code) > 0
        THEN <<Lit("### Ran Playwright code\\n[fence]js\\n", 30)
                 \o JoinLines(code) \o Lit("\\n[fence]", 4),
               <<>>>>
        ELSE <<>>
      tabLines ==
        IF includeSnapshot \/ includeTabs
        THEN RenderTabsMarkdown(ctx, includeTabs)
        ELSE <<>>
      snapshotLines ==
        IF tabSnapshot.present /\ Len(tabSnapshot.modalStates) > 0
        THEN RenderModalStates(tabSnapshot.modalStates) \o <<<<>>>>
        ELSE IF tabSnapshot.present
        THEN <<RenderTabSnapshot(tabSnapshot), <<>>>>
        ELSE <<>>
  IN  JoinLines(resultLines \o codeLines \o tabLines \o snapshotLines)

\* the notice appended by the emergency truncation
TruncationNotice ==
  Lit("\\n\\n RESPONSE TRUNCATED: Output exceeded ", 41)
    \o LocaleString(TOKEN_LIMIT)
    \o Lit(" tokens and was automatically truncated. ...", 109)

TextEntry(text) ==
  [type |-> "text", text |-> text, data |-> [encoding |-> "", of |-> 0],
   mimeType |-> ""]

\* image.data.toString('base64')
ImageEntry(image) ==
  [type |-> "image", text |-> <<>>,
   data |-> [encoding |-> "base64", of |-> image.data],
   mimeType |-> image.contentType]

\* (mutant) the emergency cut is taken at 100% of the limit instead of 90%
TruncatedText_NoMargin(fullResponse) ==
  Substring(fullResponse, TOKEN_LIMIT * 4) \o TruncationNotice

\* truncated + warningMsg of the emergency truncation
TruncatedText(fullResponse) ==
  LET maxLength == (TOKEN_LIMIT * 4 * 9) \div 10
  IN  Substring(fullResponse, maxLength) \o TruncationNotice

\* (mutant) the text returned by serialize() is never truncated
ResponseText_Untruncated(fullResponse) == fullResponse

\* the text of the text entry returned by serialize()
ResponseText(fullResponse) ==
  IF CheckTokenLimit(fullResponse).needsPagination
  THEN TruncatedText(fullResponse)
  ELSE fullResponse

\* (mutant) isError is reported only on the untruncated path
SerializedIsError_DroppedOnTruncation(fullResponse, isErr) ==
  IF CheckTokenLimit(fullResponse).needsPagination THEN FALSE ELSE isErr

\* the isError member returned by serialize(), on both return paths
SerializedIsError(fullResponse, isErr) == isErr

\* the value returned by serialize(): the truncated path returns the text
\* entry alone; the main path appends the images unless configured 'omit'
SerializeValue(ctx, result, code, images, includeSnapshot, includeTabs, tabSnapshot, isErr) ==
  LET fullResponse ==
        FullResponse(ctx, result, code, includeSnapshot, includeTabs, tabSnapshot)
      tokenCheckResult == CheckTokenLimit(fullResponse)
  IN  IF tokenCheckResult.needsPagination
      THEN [content |-> <<TextEntry(ResponseText(fullResponse))>>,
            isError |-> SerializedIsError(fullResponse, isErr)]
      ELSE [content |->
              <<TextEntry(ResponseText(fullResponse))>>
                \o (IF ctx.imageResponses # "omit"
                    THEN [i \in 1..Len(images) |-> ImageEntry(images[i])]
                    ELSE <<>>),
            isError |-> SerializedIsError(fullResponse, isErr)]

NotSerialized == [content |-> <<>>, isError |-> FALSE]

\* ---------------------------------------------------------------- inputs
MaxResults == 2
MaxCode == 1
MaxImages == 2
MaxTabs == 2

\* lengths around the budget: a lone result of 87988 characters assembles to
\* exactly 88000 characters (22000 tokens), one of 87989 to 88001
ResultTexts == {Str("result", 1, 87988), Str("result", 2, 87989)}
ErrorTexts == {Str("error", 1, 20)}
CodeTexts == {Str("code", 1, 40)}
\* the k-th image handed to addImage
Images(k) ==
  {[contentType |-> IF k % 2 = 1 THEN "image/png" ELSE "image/jpeg", data |-> k]}
AriaTexts ==
  {<<>>, Str("aria", 1, 40), Str("aria", 2, 88000), Str("aria", 3, 88001)}
SnapshotExtras ==
  {[consoleMessages |-> <<>>, downloads |-> <<>>, modalStates |-> <<>>],
   [consoleMessages |-> <<Str("console", 1, 30), Str("console", 2, 150)>>,
    downloads |-> <<[finished |-> TRUE,
                     suggestedFilename |-> Str("filename", 1, 8),
                     outputFile |-> Str("outputFile", 1, 30)],
                    [finished |-> FALSE,
                     suggestedFilename |-> Str("filename", 2, 8),
                     outputFile |-> Str("outputFile", 2, 30)]>>,
    modalStates |-> <<>>],
   [consoleMessages |-> <<Str("console", 1, 30)>>, downloads |-> <<>>,
    modalStates |-> <<Str("modal.description", 1, 25)>>]}

\* the values captureSnapshot() can return
CapturedSnapshots ==
  {[present |-> TRUE, url |-> Str("url", 1, 24), title |-> Str("title", 1, 9),
    ariaSnapshot |-> a, consoleMessages |-> x.consoleMessages,
    downloads |-> x.downloads, modalStates |-> x.modalStates] :
     a \in AriaTexts, x \in SnapshotExtras}

\* the Contexts a Response is constructed with: the open tabs (the current
\* one is the last opened; 0 when there is none) and config.imageResponses
Contexts ==
  {[nTabs |-> n, currentTab |-> n, imageResponses |-> i] :
     n \in 0..MaxTabs, i \in {"allow", "omit"}}

\* ---------------------------------------------------------------- actions
AddResult ==
  /\ pc = "handling"
  /\ Len(_result) < MaxResults
  /\ \E result \in ResultTexts : _result' = Append(_result, result)
  /\ UNCHANGED <<pc, context, _code, _images, _includeSnapshot, _includeTabs,
                 _tabSnapshot, _isError, serialized, captured, tokenCheck,
                 errorCalled>>
  /\ UNCHANGED <<delegateVars, toolVars>>

AddError ==
  /\ pc = "handling"
  /\ Len(_result) < MaxResults
  /\ \E error \in ErrorTexts : _result' = Append(_result, error)
  /\ _isError' = TRUE
  /\ errorCalled' = TRUE
  /\ UNCHANGED <<pc, context, _code, _images, _includeSnapshot, _includeTabs,
                 _tabSnapshot, serialized, captured, tokenCheck>>
  /\ UNCHANGED <<delegateVars, toolVars>>

AddCode ==
  /\ pc = "handling"
  /\ Len(_code) < MaxCode
  /\ \E code \in CodeTexts : _code' = Append(_code, code)
  /\ UNCHANGED <<pc, context, _result, _images, _includeSnapshot, _includeTabs,
                 _tabSnapshot, _isError, serialized, captured, tokenCheck,
                 errorCalled>>
  /\ UNCHANGED <<delegateVars, toolVars>>

AddImage ==
  /\ pc = "handling"
  /\ Len(_images) < MaxImages
  /\ \E image \in Images(Len(_images) + 1) : _images' = Append(_images, image)
  /\ UNCHANGED <<pc, context, _result, _code, _includeSnapshot, _includeTabs,
                 _tabSnapshot, _isError, serialized, captured, tokenCheck,
                 errorCalled>>
  /\ UNCHANGED <<delegateVars, toolVars>>

SetIncludeSnapshot ==
  /\ pc = "handling"
  /\ _includeSnapshot' = TRUE
  /\ UNCHANGED <<pc, context, _result, _code, _images, _includeTabs,
                 _tabSnapshot, _isError, serialized, captured, tokenCheck,
                 errorCalled>>
  /\ UNCHANGED <<delegateVars, toolVars>>

SetIncludeTabs ==
  /\ pc = "handling"
  /\ _includeTabs' = TRUE
  /\ UNCHANGED <<pc, context, _result, _code, _images, _includeSnapshot,
                 _tabSnapshot, _isError, serialized, captured, tokenCheck,
                 errorCalled>>
  /\ UNCHANGED <<delegateVars, toolVars>>

\* finish(): captures and stores a snapshot when one was requested and there
\* is a current tab
Finish ==
  /\ pc = "handling"
  /\ pc' = "finished"
  /\ IF _includeSnapshot /\ context.currentTab # 0
     THEN \E tempSnapshot \in CapturedSnapshots :
            /\ captured' = tempSnapshot
            /\ _tabSnapshot' = StoredSnapshot(tempSnapshot)
            /\ tokenCheck' =
                 IF TextLen(tempSnapshot.ariaSnapshot) > 0
                 THEN CheckRecord(tempSnapshot.ariaSnapshot)
                 ELSE tokenCheck
     ELSE UNCHANGED <<captured, _tabSnapshot, tokenCheck>>
  /\ UNCHANGED <<context, _result, _code, _images, _includeSnapshot,
                 _includeTabs, _isError, serialized, errorCalled>>
  /\ UNCHANGED <<delegateVars, toolVars>>

\* serialize()
Serialize ==
  /\ pc = "finished"
  /\ pc' = "serialized"
  /\ serialized' =
       SerializeValue(context, _result, _code, _images, _includeSnapshot,
                      _includeTabs, _tabSnapshot, _isError)
  /\ tokenCheck' =
       CheckRecord(FullResponse(context, _result, _code, _includeSnapshot,
                                _includeTabs, _tabSnapshot))
  /\ UNCHANGED <<context, _result, _code, _images, _includeSnapshot,
                 _includeTabs, _tabSnapshot, _isError, captured, errorCalled>>
  /\ UNCHANGED <<delegateVars, toolVars>>

\* a Response right after its constructor, for any Context
InitResponse ==
  /\ pc = "handling"
  /\ context \in Contexts
  /\ _result = <<>>
  /\ _code = <<>>
  /\ _images = <<>>
  /\ _includeSnapshot = FALSE
  /\ _includeTabs = FALSE
  /\ _tabSnapshot = NoSnapshot
  /\ _isError = FALSE
  /\ serialized = NotSerialized
  /\ captured = NoSnapshot
  /\ tokenCheck = NoCheck
  /\ errorCalled = FALSE

NextResponse ==
  \/ AddResult
  \/ AddError
  \/ AddCode
  \/ AddImage
  \/ SetIncludeSnapshot
  \/ SetIncludeTabs
  \/ Finish
  \/ Serialize

\* ======================================================================
\* Tool invocations: the params and the Tab a handler is called with
\* ======================================================================
\* an optional number of the params: absent (undefined) or a given value
Absent == [given |-> FALSE, value |-> 0]

Given(v) == [given |-> TRUE, value |-> v]

\* JavaScript truthiness of an optional number (undefined and 0 are falsy)
Truthy(p) == p.given /\ p.value # 0

\* p || d
OrDefault(p, d) == IF Truthy(p) THEN p.value ELSE d

\* Array.prototype.slice(start, end) for 0 <= start <= end
Slice(s, start, end) ==
  SubSeq(s, start + 1, IF end < Len(s) THEN end ELSE Len(s))

NoArgs ==
  [limit |-> Absent, offset |-> Absent, maxLength |-> Absent,
   returnSummary |-> FALSE]

NoTab == [consoleMessages |-> <<>>, requests |-> <<>>, evaluated |-> <<>>]

\* no tool is being handled: the Response is driven directly
InitNoTool ==
  /\ toolName = ""
  /\ variant = ""
  /\ toolArgs = NoArgs
  /\ tab = NoTab
  /\ handlerPc = "start"
  /\ attempts = 0

\* ======================================================================
\* List tools: browser_console_messages, browser_network_requests
\* ======================================================================
\* JSON.stringify({limit, offset})
PageParams(limit, offset) ==
  Lit("{limit:", 9) \o NumString(limit) \o Lit(",offset:", 10)
    \o NumString(offset) \o Lit("}", 1)

\* one line of the advice: page/totalPages and the params of that page
PageLine(page, totalPages, pageParams) ==
  Lit("page ", 2) \o NumString(page) \o Lit("/", 1) \o NumString(totalPages)
    \o Lit(": use params ", 7) \o pageParams \o Lit("\\n", 1)

RECURSIVE PageLines(_, _, _)
PageLines(page, last, totalPages) ==
  IF page > last THEN <<>>
  ELSE PageLine(page, totalPages,
                PageParams(OrDefault(Absent, 100),
                           (page - 1) * OrDefault(Absent, 100)))
         \o PageLines(page + 1, last, totalPages)

\* (mutant) the loop runs over every page instead of the first five
AddPaginationWarning_NoCap(args, totalPages) ==
  Lit("advice: too large, fetch in ", 13) \o NumString(totalPages)
    \o Lit(" pages:\\n\\n", 6)
    \o PageLines(1, totalPages, totalPages)
    \o (IF totalPages > 5
        THEN Lit("... (more pages: ", 7) \o NumString(totalPages - 5)
               \o Lit(")\\n", 3)
        ELSE <<>>)
    \o Lit("\\nor use a smaller limit", 24)

\* the message addPaginationWarning(totalPages, toolName) adds as a result;
\* baseParams is toolArgs without limit and offset, so baseParams.limit is
\* absent and the list tools have no other parameter
AddPaginationWarning(args, totalPages) ==
  Lit("advice: too large, fetch in ", 13) \o NumString(totalPages)
    \o Lit(" pages:\\n\\n", 6)
    \o PageLines(1, IF totalPages < 5 THEN totalPages ELSE 5, totalPages)
    \o (IF totalPages > 5
        THEN Lit("... (more pages: ", 7) \o NumString(totalPages - 5)
               \o Lit(")\\n", 3)
        ELSE <<>>)
    \o Lit("\\nor use a smaller limit", 24)

\* message.toString() of a recorded console message
MessageToString(message) == Str("message.toString", message.id, message.len)

\* renderRequest(request, response)
RenderRequest(entry) ==
  Lit("[", 1) \o Str("method.toUpperCase", entry.id, 3) \o Lit("] ", 2)
    \o Str("url", entry.id, entry.len)
    \o (IF entry.hasResponse
        THEN Lit(" ", 1) \o Lit("=> [", 4) \o Str("status", entry.id, 3)
               \o Lit("] ", 2) \o Str("statusText", entry.id, 2)
        ELSE <<>>)

\* allContent of the console handler
ConsoleAllContent(t) ==
  JoinLines([i \in 1..Len(t.consoleMessages) |->
               MessageToString(t.consoleMessages[i])])

\* allContent of the network handler
RequestsAllContent(t) ==
  JoinLines([i \in 1..Len(t.requests) |-> RenderRequest(t.requests[i])])

\* the budget check runs when neither params.limit nor params.offset is truthy
PreCheck(params) == ~Truthy(params.limit) /\ ~Truthy(params.offset)

\* the results the console handler adds, in order
ConsoleMessagesHandle(t, params) ==
  LET consoleMessages == t.consoleMessages
      limit == OrDefault(params.limit, 100)
      offset == OrDefault(params.offset, 0)
      paginatedMessages == Slice(consoleMessages, offset, offset + limit)
      hasMore == offset + limit < Len(consoleMessages)
  IN  IF PreCheck(params) /\ CheckTokenLimit(ConsoleAllContent(t)).needsPagination
      THEN <<AddPaginationWarning(params,
                                  CheckTokenLimit(ConsoleAllContent(t)).totalPages)>>
      ELSE IF Len(paginatedMessages) = 0
      THEN <<Lit("No console messages found in the specified range.", 49)>>
      ELSE (IF Truthy(params.limit) \/ Truthy(params.offset)
            THEN <<Lit("Console messages ", 17) \o NumString(offset + 1)
                     \o Lit("-", 1)
                     \o NumString(offset + Len(paginatedMessages))
                     \o Lit(" of ", 4) \o NumString(Len(consoleMessages))
                     \o Lit(":", 1)>>
            ELSE <<>>)
           \o [i \in 1..Len(paginatedMessages) |->
                 MessageToString(paginatedMessages[i])]
           \o (IF hasMore
               THEN <<Lit("More messages available. Next page: {limit: ", 50)
                        \o NumString(limit) \o Lit(", offset: ", 12)
                        \o NumString(offset + limit) \o Lit("}", 1)>>
               ELSE <<>>)

\* the results the network handler adds, in order
NetworkRequestsHandle(t, params) ==
  LET requestEntries == t.requests
      limit == OrDefault(params.limit, 100)
      offset == OrDefault(params.offset, 0)
      paginatedEntries == Slice(requestEntries, offset, offset + limit)
      hasMore == offset + limit < Len(requestEntries)
  IN  IF PreCheck(params) /\ CheckTokenLimit(RequestsAllContent(t)).needsPagination
      THEN <<AddPaginationWarning(params,
                                  CheckTokenLimit(RequestsAllContent(t)).totalPages)>>
      ELSE IF Len(paginatedEntries) = 0
      THEN <<Lit("No network requests found in the specified range.", 49)>>
      ELSE (IF Truthy(params.limit) \/ Truthy(params.offset)
            THEN <<Lit("Network requests ", 17) \o NumString(offset + 1)
                     \o Lit("-", 1)
                     \o NumString(offset + Len(paginatedEntries))
                     \o Lit(" of ", 4) \o NumString(Len(requestEntries))
                     \o Lit(":", 1)>>
            ELSE <<>>)
           \o [i \in 1..Len(paginatedEntries) |->
                 RenderRequest(paginatedEntries[i])]
           \o (IF hasMore
               THEN <<Lit("More results available. Next page: {limit: ", 51)
                        \o NumString(limit) \o Lit(", offset: ", 12)
                        \o NumString(offset + limit) \o Lit("}", 1)>>
               ELSE <<>>)

\* ---------------------------------------------------------------- inputs
\* list lengths: empty, short, the default page size and one more, and the
\* 250 items of the boundary examples
ListSizes == {0, 3, 100, 101, 250}

\* lengths of one item's text: a 250-item list is within budget, needs 2
\* pages, or needs more than 5 pages
ItemLengths == {40, 400, 2000}

RecordedTabs ==
  {[consoleMessages |-> [i \in 1..n |-> [id |-> i, len |-> l]],
    requests |-> [i \in 1..n |->
                    [id |-> i, len |-> l, hasResponse |-> i % 2 = 1]],
    evaluated |-> <<>>] : n \in ListSizes, l \in ItemLengths}

ListParams ==
  {[limit |-> li, offset |-> off, maxLength |-> Absent,
    returnSummary |-> FALSE] :
     li \in {Absent, Given(0), Given(50), Given(100)},
     off \in {Absent, Given(0), Given(100), Given(200), Given(300)}}

\* ---------------------------------------------------------------- actions
\* browser_console_messages: handle(tab, params, response)
ConsoleMessages ==
  /\ toolName = "browser_console_messages"
  /\ handlerPc = "start"
  /\ pc = "handling"
  /\ _result' = _result \o ConsoleMessagesHandle(tab, toolArgs)
  /\ tokenCheck' = IF PreCheck(toolArgs)
                   THEN CheckRecord(ConsoleAllContent(tab))
                   ELSE tokenCheck
  /\ handlerPc' = "returned"
  /\ attempts' = attempts + 1
  /\ UNCHANGED <<pc, context, _code, _images, _includeSnapshot, _includeTabs,
                 _tabSnapshot, _isError, serialized, captured, errorCalled>>
  /\ UNCHANGED <<toolName, toolArgs, tab, variant>>
  /\ UNCHANGED delegateVars

\* browser_network_requests: handle(tab, params, response)
NetworkRequests ==
  /\ toolName = "browser_network_requests"
  /\ handlerPc = "start"
  /\ pc = "handling"
  /\ _result' = _result \o NetworkRequestsHandle(tab, toolArgs)
  /\ tokenCheck' = IF PreCheck(toolArgs)
                   THEN CheckRecord(RequestsAllContent(tab))
                   ELSE tokenCheck
  /\ handlerPc' = "returned"
  /\ attempts' = attempts + 1
  /\ UNCHANGED <<pc, context, _code, _images, _includeSnapshot, _includeTabs,
                 _tabSnapshot, _isError, serialized, captured, errorCalled>>
  /\ UNCHANGED <<toolName, toolArgs, tab, variant>>
  /\ UNCHANGED delegateVars

\* a list tool called on a fresh Response, for any recorded list and params
InitList ==
  /\ InitDelegate
  /\ InitResponse
  /\ context = [nTabs |-> 1, currentTab |-> 1, imageResponses |-> "allow"]
  /\ toolName \in {"browser_console_messages", "browser_network_requests"}
  /\ toolArgs \in ListParams
  /\ tab \in RecordedTabs
  /\ variant = ""
  /\ handlerPc = "start"
  /\ attempts = 0

NextList ==
  \/ ConsoleMessages
  \/ NetworkRequests

\* ======================================================================
\* browser_evaluate (two handlers: budget check first, maxLength check first)
\* ======================================================================
\* JSON.stringify(result, null, 2) || 'undefined'; an empty tab.evaluated
\* stands for a result JSON.stringify maps to undefined
JsonResult(t) ==
  IF t.evaluated = <<>> THEN Lit("undefined", 9) ELSE t.evaluated

\* JSON.stringify(summary, null, 2) of the over-budget summary; the preview
\* chunk stands for the JSON encoding of that many characters of the result
BudgetSummary(jsonResult) ==
  Lit("{type, length: ", 34) \o NumString(TextLen(jsonResult))
    \o Lit(", estimatedTokens: ", 23)
    \o NumString(Ceil(TextLen(jsonResult), 3))
    \o Lit(", preview: ", 16) \o Substring(jsonResult, 1000)
    \o Lit(", truncated: true, suggestion: modify}", 114)

\* JSON.stringify(summary, null, 2) of the over-maxLength summary
LengthSummary(jsonResult, maxLength) ==
  Lit("{type, length: ", 34) \o NumString(TextLen(jsonResult))
    \o Lit(", preview: ", 16) \o Substring(jsonResult, maxLength)
    \o Lit(", truncated: true, suggestion: full}", 111)

\* the result added by the handler that checks the token budget first
BudgetFirstHandle(t, params) ==
  LET jsonResult == JsonResult(t)
      maxLength == OrDefault(params.maxLength, 10000)
  IN  IF CheckTokenLimit(jsonResult).needsPagination
      THEN IF params.returnSummary
           THEN BudgetSummary(jsonResult)
           ELSE Lit("warn: JavaScript execution result too large (~", 43)
                  \o LocaleString(Ceil(TextLen(jsonResult), 3))
                  \o Lit(" tokens), exceeds limit (20000 tokens). Recommended solutions:", 65)
                  \o Lit("1. Limit length: {maxLength: ", 31)
                  \o NumString(maxLength \div 2)
                  \o Lit("} 2. Return summary 3. Modify code. Result preview:", 138)
                  \o Substring(jsonResult, 1000) \o Lit("...", 3)
      ELSE IF TextLen(jsonResult) > maxLength
      THEN IF params.returnSummary
           THEN LengthSummary(jsonResult, maxLength)
           ELSE Lit("warn: Result truncated to ", 23) \o NumString(maxLength)
                  \o Lit(" characters (original: ", 23)
                  \o NumString(TextLen(jsonResult))
                  \o Lit(" characters).", 15)
                  \o Substring(jsonResult, maxLength) \o Lit("...", 3)
      ELSE jsonResult

\* whether the handler that checks maxLength first calls checkTokenLimit
MaxLengthFirstChecks(t, params) ==
  /\ TextLen(JsonResult(t)) > OrDefault(params.maxLength, 10000)
  /\ ~params.returnSummary

\* the result added by the handler that checks maxLength first
MaxLengthFirstHandle(t, params) ==
  LET jsonResult == JsonResult(t)
      maxLength == OrDefault(params.maxLength, 10000)
  IN  IF TextLen(jsonResult) > maxLength /\ params.returnSummary
      THEN LengthSummary(jsonResult, maxLength)
      ELSE IF /\ TextLen(jsonResult) > maxLength
              /\ CheckTokenLimit(jsonResult).needsPagination
      THEN Lit("warn: JavaScript result too large (about ", 22)
             \o LocaleString(Ceil(TextLen(jsonResult), 4))
             \o Lit(" tokens), over the limit (24,000 tokens). Use these params:", 43)
             \o Lit("1. limit length: {maxLength: ", 23)
             \o NumString(maxLength)
             \o Lit("} 2. return summary 3. modify code. preview:", 78)
             \o Substring(jsonResult, 1000) \o Lit("...", 3)
      ELSE jsonResult

\* the code line the handlers add: await page.evaluate(<quoted function>);
EvaluateCode == Str("await page.evaluate", 1, 40)

\* whether a result carries suggestion 1 of the budget-first handler
HasSuggestion(text) ==
  \E k \in 1..Len(text) : text[k].src = "1. Limit length: {maxLength: "

\* the maxLength value suggestion 1 names
SuggestedMaxLength(text) ==
  text[(CHOOSE k \in 1..Len(text) :
          text[k].src = "1. Limit length: {maxLength: ") + 1].id

\* ---------------------------------------------------------------- inputs
\* lengths of JSON.stringify(result, null, 2): short, above
\* small maxLength values, around the default maxLength, around the budget
EvaluatedLengths == {800, 5000, 10000, 10001, 88000, 88001, 200000}

EvaluatedTabs ==
  {[consoleMessages |-> <<>>, requests |-> <<>>,
    evaluated |-> Str("jsonResult", 1, l)] : l \in EvaluatedLengths}

EvaluateParams ==
  {[limit |-> Absent, offset |-> Absent, maxLength |-> m,
    returnSummary |-> r] :
     m \in {Absent, Given(500), Given(2000), Given(20000)},
     r \in BOOLEAN}

\* ---------------------------------------------------------------- actions
\* browser_evaluate, budget check first: handle(tab, params, response)
EvaluateBudgetFirst ==
  /\ toolName = "browser_evaluate"
  /\ variant = "budget-first"
  /\ handlerPc = "start"
  /\ pc = "handling"
  /\ _includeSnapshot' = TRUE
  /\ _code' = Append(_code, EvaluateCode)
  /\ tokenCheck' = CheckRecord(JsonResult(tab))
  /\ _result' = Append(_result, BudgetFirstHandle(tab, toolArgs))
  /\ handlerPc' = "returned"
  /\ attempts' = attempts + 1
  /\ UNCHANGED <<pc, context, _images, _includeTabs, _tabSnapshot, _isError,
                 serialized, captured, errorCalled>>
  /\ UNCHANGED <<toolName, toolArgs, tab, variant>>
  /\ UNCHANGED delegateVars

\* browser_evaluate, maxLength check first: handle(tab, params, response)
EvaluateMaxLengthFirst ==
  /\ toolName = "browser_evaluate"
  /\ variant = "maxLength-first"
  /\ handlerPc = "start"
  /\ pc = "handling"
  /\ _includeSnapshot' = TRUE
  /\ _code' = Append(_code, EvaluateCode)
  /\ tokenCheck' = IF MaxLengthFirstChecks(tab, toolArgs)
                   THEN CheckRecord(JsonResult(tab))
                   ELSE tokenCheck
  /\ _result' = Append(_result, MaxLengthFirstHandle(tab, toolArgs))
  /\ handlerPc' = "returned"
  /\ attempts' = attempts + 1
  /\ UNCHANGED <<pc, context, _images, _includeTabs, _tabSnapshot, _isError,
                 serialized, captured, errorCalled>>
  /\ UNCHANGED <<toolName, toolArgs, tab, variant>>
  /\ UNCHANGED delegateVars

\* the caller follows suggestion 1 of the too-large message: the same call
\* again, with the suggested maxLength, handled on a new Response
FollowSuggestion ==
  /\ toolName = "browser_evaluate"
  /\ handlerPc = "returned"
  /\ attempts < MaxAttempts
  /\ Len(_result) = 1
  /\ HasSuggestion(_result[1])
  /\ toolArgs' =
       [toolArgs EXCEPT !.maxLength = Given(SuggestedMaxLength(_result[1]))]
  /\ _result' = <<>>
  /\ _code' = <<>>
  /\ _includeSnapshot' = FALSE
  /\ tokenCheck' = NoCheck
  /\ handlerPc' = "start"
  /\ UNCHANGED <<pc, context, _images, _includeTabs, _tabSnapshot, _isError,
                 serialized, captured, errorCalled>>
  /\ UNCHANGED <<toolName, tab, variant, attempts>>
  /\ UNCHANGED delegateVars

\* browser_evaluate called on a fresh Response, for either handler, any
\* evaluation result and any params
InitEvaluate ==
  /\ InitDelegate
  /\ InitResponse
  /\ context = [nTabs |-> 1, currentTab |-> 1, imageResponses |-> "allow"]
  /\ toolName = "browser_evaluate"
  /\ variant \in {"budget-first", "maxLength-first"}
  /\ toolArgs \in EvaluateParams
  /\ tab \in {NoTab} \cup EvaluatedTabs
  /\ handlerPc = "start"
  /\ attempts = 0

NextEvaluate ==
  \/ EvaluateBudgetFirst
  \/ EvaluateMaxLengthFirst
  \/ FollowSuggestion

\* ======================================================================
\* Specifications
\* ======================================================================
Init == InitDelegate /\ InitResponse /\ InitNoTool

Next == NextDelegate \/ NextResponse

Spec == Init /\ [][Next]_vars

\* the conversation bridge alone, beside one untouched Response
InitBridge ==
  /\ Init
  /\ context = [nTabs |-> 1, currentTab |-> 1, imageResponses |-> "allow"]

SpecDelegate == InitBridge /\ [][NextDelegate]_vars

\* one Response from construction to serialization
SpecResponse == Init /\ [][NextResponse]_vars

\* one invocation of a list tool
SpecList == InitList /\ [][NextList]_vars

\* invocations of browser_evaluate, the caller following the suggested retry
SpecEvaluate == InitEvaluate /\ [][NextEvaluate]_vars

\* ======================================================================
\* Claims about ClaudeDelegate.makeApiCall (checked under SpecDelegate)
\* ======================================================================
RECURSIVE SortedSeq(_)
SortedSeq(S) ==
  IF S = {} THEN <<>>
  ELSE LET m == CHOOSE x \in S : \A y \in S : x <= y
       IN  <<m>> \o SortedSeq(S \ {m})

CallIds(m) == {m.toolCalls[k].id : k \in 1..Len(m.toolCalls)}
BlockIds(cm, type) ==
  {cm.blocks[k].id : k \in {n \in 1..Len(cm.blocks) : cm.blocks[n].type = type}}

IsBatch(cm) ==
  /\ cm.role = "user"
  /\ cm.isArray
  /\ \A k \in 1..Len(cm.blocks) : cm.blocks[k].type = "tool_result"

\* positions of the assistant tool-calling turns of a log, and of the
\* tool-result batches of a provider message list
TurnsOf(log) ==
  SortedSeq({i \in 1..Len(log) :
               log[i].role = "assistant" /\ Len(log[i].toolCalls) > 0})
BatchesOf(out) == SortedSeq({j \in 1..Len(out) : IsBatch(out[j])})

\* the tool messages that follow position i up to the next non-tool message
RECURSIVE ResultsAfter(_, _)
ResultsAfter(log, i) ==
  IF i + 1 > Len(log) \/ log[i + 1].role # "tool" THEN <<>>
  ELSE <<log[i + 1]>> \o ResultsAfter(log, i + 1)

\* a user message, then assistant tool-calling turns, each followed by exactly
\* one tool-result message per tool call of that turn
WellFormedLog(log) ==
  /\ Len(log) >= 1
  /\ log[1].role = "user"
  /\ \A i \in 2..Len(log) : log[i].role # "user"
  /\ \A i \in 1..Len(log) :
       log[i].role = "assistant" =>
         LET rs == ResultsAfter(log, i)
         IN  /\ Len(log[i].toolCalls) > 0
             /\ Len(rs) = Len(log[i].toolCalls)
             /\ {rs[k].toolCallId : k \in 1..Len(rs)} = CallIds(log[i])

\* C1: for a well-formed log of N >= 1 assistant tool-calling turns, the
\* provider message list holds exactly one tool-result batch per turn, and the
\* k-th batch's tool_use_id set equals the k-th turn's tool-call id set.
C1_OneBatchPerTurn ==
  (WellFormedLog(sentLog) /\ Len(TurnsOf(sentLog)) >= 1) =>
    LET turns == TurnsOf(sentLog)
        batches == BatchesOf(claudeMessages)
    IN  /\ Len(batches) = Len(turns)
        /\ \A k \in 1..Len(turns) :
             BlockIds(claudeMessages[batches[k]], "tool_result")
               = CallIds(sentLog[turns[k]])

\* number of assistant messages strictly before position j
AssistantsBeforeOut(out, j) ==
  Cardinality({i \in 1..(j - 1) : out[i].role = "assistant"})
AssistantsBeforeLog(log, j) ==
  Cardinality({i \in 1..(j - 1) : log[i].role = "assistant"})

PlainOf(out) == SelectSeq(out, LAMBDA cm : ~IsBatch(cm))
SpokenOf(log) == SelectSeq(log, LAMBDA m : m.role # "tool")

\* C2: in the provider message list, user and assistant messages keep their
\* log order; every tool-result batch directly follows the assistant message
\* whose tool calls it answers; and every tool result stays behind exactly the
\* assistant messages that precede it in the log (none is moved past a later
\* assistant message).
C2_OrderPreserved ==
  LET plain == PlainOf(claudeMessages)
      spoken == SpokenOf(sentLog)
  IN  /\ Len(plain) = Len(spoken)
      /\ \A k \in 1..Len(plain) :
           /\ plain[k].role = spoken[k].role
           /\ spoken[k].role = "user" => plain[k].text = spoken[k].content
           /\ spoken[k].role = "assistant" =>
                [n \in 1..Len(spoken[k].toolCalls) |-> spoken[k].toolCalls[n].id]
                  = [n \in 1..Len(spoken[k].toolCalls) |->
                       SelectSeq(plain[k].blocks,
                                 LAMBDA b : b.type = "tool_use")[n].id]
      /\ \A j \in 1..Len(claudeMessages) :
           IsBatch(claudeMessages[j]) =>
             /\ j > 1
             /\ claudeMessages[j - 1].role = "assistant"
             /\ BlockIds(claudeMessages[j], "tool_result")
                  \subseteq BlockIds(claudeMessages[j - 1], "tool_use")
             /\ \A b \in Range(claudeMessages[j].blocks) :
                  \A i \in 1..Len(sentLog) :
                    (sentLog[i].role = "tool" /\ sentLog[i].toolCallId = b.id) =>
                      AssistantsBeforeOut(claudeMessages, j)
                        = AssistantsBeforeLog(sentLog, i)

\* C2 witness: a list built from a log of two tool-calling turns that holds a
\* tool-result batch
C2_Witness ==
  /\ Len(TurnsOf(sentLog)) >= 2
  /\ Len(BatchesOf(claudeMessages)) >= 1

\* C3: no batch of the provider message list covers only part of the tool-call
\* ids of the turn it follows, and every tool result of the log is present in
\* the list.
C3_NoPartialBatchNoDrop ==
  /\ \A j \in 1..Len(claudeMessages) :
       (IsBatch(claudeMessages[j]) /\ j > 1) =>
         BlockIds(claudeMessages[j - 1], "tool_use")
           \subseteq BlockIds(claudeMessages[j], "tool_result")
  /\ \A i \in 1..Len(sentLog) :
       sentLog[i].role = "tool" =>
         \E j \in 1..Len(claudeMessages) :
           /\ IsBatch(claudeMessages[j])
           /\ sentLog[i].toolCallId \in BlockIds(claudeMessages[j], "tool_result")

\* ======================================================================
\* Claims about Response (checked under SpecResponse)
\* ======================================================================
\* the text of the text entry returned by serialize()
SerializedText == serialized.content[1].text

\* the text serialize() assembled before the final budget check
AssembledText ==
  FullResponse(context, _result, _code, _includeSnapshot, _includeTabs,
               _tabSnapshot)

\* C4: the text entry returned by serialize() is within the budget: its
\* estimated token count ceil(length/4) is at most 22000, that is, its length
\* is at most 88000 characters.
C4_SerializedWithinBudget ==
  pc = "serialized" =>
    /\ serialized.content[1].type = "text"
    /\ TextLen(SerializedText) <= 4 * 22000

\* C4 witness: a response with a page snapshot whose assembled text was over
\* budget has been serialized
C4_Witness ==
  /\ pc = "serialized"
  /\ _tabSnapshot.present
  /\ TextLen(AssembledText) > 88000

\* C5: when the assembled text is over budget (more than 88000 characters) the
\* returned text is its first 79200 characters followed by the truncation
\* notice, of length at most 79200 plus the notice length; otherwise the
\* assembled text is returned unchanged.
C5_EmergencyTruncation ==
  pc = "serialized" =>
    IF TextLen(AssembledText) > 88000
    THEN /\ SerializedText = Substring(AssembledText, 79200) \o TruncationNotice
         /\ TextLen(Substring(AssembledText, 79200)) = 79200
         /\ TextLen(SerializedText) <= 79200 + TextLen(TruncationNotice)
    ELSE SerializedText = AssembledText

\* C5 witness: both sides of the boundary are serialized: here the truncated one
C5_Witness ==
  /\ pc = "serialized"
  /\ TextLen(AssembledText) = 88001
  /\ TextLen(SerializedText) = 79200 + 156

\* the image entries of the serialized content, after the text entry
SerializedImages == SubSeq(serialized.content, 2, Len(serialized.content))

\* C6: unless image responses are configured 'omit', serialize() returns one
\* image entry per added image, in insertion order, after the text entry, also
\* when the text was truncated; with 'omit' it returns no image entry.
C6_ImagesNeverTruncated ==
  pc = "serialized" =>
    /\ serialized.content[1].type = "text"
    /\ SerializedImages =
         IF context.imageResponses # "omit"
         THEN [i \in 1..Len(_images) |-> ImageEntry(_images[i])]
         ELSE <<>>

\* C7: the error flag is set exactly when addError has been called, never
\* goes back once set, and serialize() returns it unchanged on the truncated
\* and on the untruncated path.
C7_ErrorFlagSticky ==
  /\ [](_isError = errorCalled)
  /\ [][_isError => _isError']_vars
  /\ [](pc = "serialized" => serialized.isError = _isError)

\* C7 witness: a response with an error whose text was truncated
C7_Witness ==
  /\ pc = "serialized"
  /\ errorCalled
  /\ TextLen(AssembledText) > 88000
  /\ serialized.isError

\* C8: for the text of length len last checked, the estimate e reported is
\* ceil(len/4); needsPagination holds iff e > 22000; when it holds totalPages
\* is ceil(e/22000) and at least 2; when it does not, no totalPages is given.
C8_CheckTokenLimit ==
  LET len == tokenCheck.length
      r == tokenCheck.result
  IN  /\ r.needsPagination <=> len > 4 * 22000
      /\ r.hasTotalPages <=> r.needsPagination
      /\ r.needsPagination =>
           /\ r.totalPages >= 2
           /\ r.totalPages * 22000 * 4 >= len
           /\ (r.totalPages - 1) * 22000 * 4 < len
           /\ 4 * r.message[2].id >= len
           /\ 4 * (r.message[2].id - 1) < len

\* C8 witness: a text needing three pages has been checked
C8_Witness ==
  /\ tokenCheck.result.needsPagination
  /\ tokenCheck.result.totalPages = 3

\* C9: finish() stores the captured snapshot unmodified unless its
\* accessibility-tree text is over budget; then the stored ariaSnapshot is the
\* first 70400 characters of the captured text followed by the warning block,
\* and every other field equals the captured one.
C9_SnapshotTruncation ==
  pc # "handling" =>
    IF captured.present /\ TextLen(captured.ariaSnapshot) > 88000
    THEN /\ _tabSnapshot.ariaSnapshot =
              Substring(captured.ariaSnapshot, 70400)
                \o SnapshotWarning(Ceil(TextLen(captured.ariaSnapshot), 4))
         /\ TextLen(Substring(captured.ariaSnapshot, 70400)) = 70400
         /\ _tabSnapshot.present
         /\ _tabSnapshot.url = captured.url
         /\ _tabSnapshot.title = captured.title
         /\ _tabSnapshot.consoleMessages = captured.consoleMessages
         /\ _tabSnapshot.downloads = captured.downloads
         /\ _tabSnapshot.modalStates = captured.modalStates
    ELSE _tabSnapshot = captured

\* C9 witness: finish() captured an over-budget snapshot that carries console
\* messages and downloads
C9_Witness ==
  /\ pc = "finished"
  /\ captured.present
  /\ TextLen(captured.ariaSnapshot) > 88000
  /\ Len(captured.consoleMessages) > 0
  /\ Len(captured.downloads) > 0

\* the open-tabs listing is part of the serialized text
TabsListed ==
  \E k \in 1..Len(SerializedText) : SerializedText[k].src = "### Open tabs"

\* C10 (as stated): the open-tabs listing appears only when there is more than
\* one open tab or the tab list was requested with setIncludeTabs.
C10_TabsOnlyWhenManyOrRequested ==
  (pc = "serialized" /\ TabsListed) => (context.nTabs > 1 \/ _includeTabs)

\* C10 (amended): the open-tabs listing appears only when the tab list was
\* requested with setIncludeTabs, or a snapshot was requested with
\* setIncludeSnapshot and the number of open tabs is not exactly one (more
\* than one tab, or no tab at all).
C10_TabsOnlyWhenRequestedOrNotSingle ==
  (pc = "serialized" /\ TabsListed) =>
    (_includeTabs \/ (_includeSnapshot /\ context.nTabs # 1))

\* C10 witness: with no open tab and no explicit request the listing is
\* rendered
C10_Witness ==
  /\ pc = "serialized"
  /\ TabsListed
  /\ context.nTabs = 0
  /\ ~_includeTabs

\* positions in a text of the chunks that come from one source string
PositionsOf(text, src) == {k \in 1..Len(text) : text[k].src = src}

\* the headings of the sections, in the order of the claim: result, code, open
\* tabs, modal state, page state
SectionHeads ==
  <<"### Result", "### Ran Playwright code\\n[fence]js\\n", "### Open tabs",
    "### Modal state", "### Page state">>

\* C11: in the text assembled by serialize() the sections present appear in
\* the order result, code, open tabs, then modal-state block or page-state
\* block; the result and code sections are present exactly when non-empty; the
\* modal-state block is rendered exactly when the stored snapshot has a modal
\* state, and then no page state (URL, title, snapshot) is rendered; the
\* page-state block exactly when a snapshot without modal states is stored.
C11_SectionOrder ==
  pc = "serialized" =>
    \A t \in {AssembledText} :
      \A pos \in {[a \in 1..5 |-> PositionsOf(t, SectionHeads[a])]} :
        LET results == PositionsOf(t, "result") \cup PositionsOf(t, "error")
            hasModal ==
              _tabSnapshot.present /\ Len(_tabSnapshot.modalStates) > 0
            hasPage ==
              _tabSnapshot.present /\ Len(_tabSnapshot.modalStates) = 0
        IN  /\ \A a, b \in 1..5 :
                 a < b => \A i \in pos[a], j \in pos[b] : i < j
            /\ \A a \in 1..5 : Cardinality(pos[a]) <= 1
            /\ pos[1] # {} <=> Len(_result) > 0
            /\ pos[2] # {} <=> Len(_code) > 0
            /\ pos[4] # {} <=> hasModal
            /\ pos[5] # {} <=> hasPage
            /\ PositionsOf(t, "- Page URL: ") # {} <=> hasPage
            /\ PositionsOf(t, "- Page Title: ") # {} <=> hasPage
            /\ PositionsOf(t, "[fence]yaml") # {} <=> hasPage
            /\ \A k \in pos[1] :
                 \A j \in results :
                   /\ k < j
                   /\ \A h \in 2..5 : \A i \in pos[h] : j < i
            /\ \A j \in PositionsOf(t, "code") :
                 \A h \in 3..5 : \A i \in pos[h] : j < i

\* C11 witness: a response with result, code, tab listing and a snapshot that
\* has a modal state has been serialized
C11_Witness ==
  /\ pc = "serialized"
  /\ Len(_result) > 0
  /\ Len(_code) > 0
  /\ PositionsOf(AssembledText, "### Open tabs") # {}
  /\ _tabSnapshot.present
  /\ Len(_tabSnapshot.modalStates) > 0

\* ---------------------------------------------------------------- list tools
ListTools == {"browser_console_messages", "browser_network_requests"}

\* number of items the tab recorded for the tool being handled
Recorded ==
  IF toolName = "browser_console_messages" THEN Len(tab.consoleMessages)
  ELSE Len(tab.requests)

\* the text of item i (1-based) of the tool being handled, as the result
\* shows it: the leading chunk that carries the item's identity
ItemChunks(text) ==
  {k \in 1..Len(text) : text[k].src \in {"message.toString", "url"}}

\* length of the full rendering (items joined by line feeds), in closed form:
\* a console message of length l renders as l characters, request i as
\* "[GET] " + url, plus " => [200] OK" for the odd i (those with a response)
FullRenderingLength ==
  IF Recorded = 0 THEN 0
  ELSE IF toolName = "browser_console_messages"
  THEN Recorded * tab.consoleMessages[1].len + (Recorded - 1)
  ELSE Recorded * (6 + tab.requests[1].len) + 12 * ((Recorded + 1) \div 2)
         + (Recorded - 1)

EstimatedListTokens == (FullRenderingLength + 3) \div 4

NeitherSupplied == ~toolArgs.limit.given /\ ~toolArgs.offset.given

\* C12: a list tool called with neither limit nor offset on a list whose full
\* rendering is over budget adds no list item and exactly one advice message;
\* with totalPages = ceil(estimatedTokens / 22000) the message has
\* min(totalPages, 5) page entries, entry p suggesting limit 100 and offset
\* (p - 1) * 100, and a remainder line with the count totalPages - 5 exactly
\* when totalPages > 5.
C12_PaginationAdvice ==
  (/\ toolName \in ListTools
   /\ handlerPc = "returned"
   /\ NeitherSupplied
   /\ EstimatedListTokens > 22000) =>
    /\ Len(_result) = 1
    /\ LET m == _result[1]
           totalPages == (EstimatedListTokens + 21999) \div 22000
           entries == IF totalPages < 5 THEN totalPages ELSE 5
           pagePos == PositionsOf(m, "page ")
           restPos == PositionsOf(m, "... (more pages: ")
       IN  /\ ItemChunks(m) = {}
           /\ Cardinality(pagePos) = entries
           /\ \A p \in 1..entries :
                \E k \in pagePos :
                  /\ m[k + 1] = Chunk("toString", p, Digits(p))
                  /\ m[k + 3].id = totalPages
                  /\ m[k + 5].src = "{limit:"
                  /\ m[k + 6].src = "toString" /\ m[k + 6].id = 100
                  /\ m[k + 7].src = ",offset:"
                  /\ m[k + 8].src = "toString" /\ m[k + 8].id = (p - 1) * 100
                  /\ m[k + 9].src = "}"
           /\ restPos # {} <=> totalPages > 5
           /\ Cardinality(restPos) <= 1
           /\ \A k \in restPos : m[k + 1].id = totalPages - 5

\* C12 witness: a list tool returned the advice for a list that needs more
\* than five pages, called with neither limit nor offset
C12_Witness ==
  /\ toolName \in ListTools
  /\ handlerPc = "returned"
  /\ NeitherSupplied
  /\ EstimatedListTokens > 5 * 22000
  /\ Len(_result) = 1
  /\ PositionsOf(_result[1], "... (more pages: ") # {}

\* the identity (1-based position in the recorded list) of the item a result
\* entry shows; 0 when the entry is not a list item
ItemShown(text) ==
  IF Cardinality(ItemChunks(text)) = 1
  THEN text[CHOOSE k \in ItemChunks(text) : TRUE].id
  ELSE 0

\* C13: a list tool called with a caller-supplied limit and/or offset (limit
\* defaulting to 100, offset to 0 when only the other is supplied) on a list
\* of T items adds exactly the items at positions [offset, min(offset+limit,
\* T)) in order, after a header with the range offset+1..offset+returned and
\* the total T, followed by a next-page hint {limit, offset+limit} exactly
\* when offset+limit < T; an empty slice yields only the nothing-found message.
C13_CallerBoundsHonoured ==
  (/\ toolName \in ListTools
   /\ handlerPc = "returned"
   /\ ~NeitherSupplied) =>
    LET limit == IF toolArgs.limit.given THEN toolArgs.limit.value ELSE 100
        offset == IF toolArgs.offset.given THEN toolArgs.offset.value ELSE 0
        T == Recorded
        end == IF offset + limit < T THEN offset + limit ELSE T
        returned == IF end > offset THEN end - offset ELSE 0
        hinted == offset + limit < T
    IN  IF returned = 0
        THEN /\ Len(_result) = 1
             /\ _result[1][1].src \in
                  {"No console messages found in the specified range.",
                   "No network requests found in the specified range."}
        ELSE /\ Len(_result) = 1 + returned + (IF hinted THEN 1 ELSE 0)
             /\ _result[1][1].src \in {"Console messages ", "Network requests "}
             /\ _result[1][2].id = offset + 1
             /\ _result[1][4].id = offset + returned
             /\ _result[1][6].id = T
             /\ \A i \in 1..returned : ItemShown(_result[1 + i]) = offset + i
             /\ hinted =>
                  LET hint == _result[Len(_result)]
                  IN  /\ hint[1].src \in
                           {"More messages available. Next page: {limit: ",
                            "More results available. Next page: {limit: "}
                      /\ hint[2].id = limit
                      /\ hint[4].id = offset + limit

\* C14: a list tool called with neither limit nor offset on a list whose full
\* rendering is within budget returns all recorded items: every recorded item
\* appears in the result, for every list length.
C14_ReturnsAllItems ==
  (/\ toolName \in ListTools
   /\ handlerPc = "returned"
   /\ NeitherSupplied
   /\ EstimatedListTokens <= 22000) =>
    \A i \in 1..Recorded :
      \E j \in 1..Len(_result) : ItemShown(_result[j]) = i

\* ---------------------------------------------------------------- evaluate
\* number of characters of the raw JSON result text a result entry includes
IncludedLength(text) ==
  IF PositionsOf(text, "jsonResult") = {} THEN 0
  ELSE text[CHOOSE k \in PositionsOf(text, "jsonResult") : TRUE].len

\* C15: maxLength (default 10000) is the maximum length of the result
\* browser_evaluate returns: whatever the result and the params, the portion
\* of the raw JSON result text included in the response (whole, truncated or
\* as a preview) is never longer than maxLength.
C15_MaxLengthBoundsResult ==
  (toolName = "browser_evaluate" /\ handlerPc = "returned") =>
    \A j \in 1..Len(_result) :
      IncludedLength(_result[j]) <=
        (IF toolArgs.maxLength.given THEN toolArgs.maxLength.value ELSE 10000)

\* C19: in the budget-first browser_evaluate, following suggestion 1 of the
\* too-large message (the same call with maxLength = floor(maxLength / 2))
\* resolves the oversize result: the repeated call returns the truncated
\* result, not the too-large message.
C19_SuggestionResolves ==
  (/\ toolName = "browser_evaluate"
   /\ variant = "budget-first"
   /\ handlerPc = "returned"
   /\ attempts >= 2) =>
    /\ Len(_result) = 1
    /\ ~HasSuggestion(_result[1])
    /\ _result[1][1].src = "warn: Result truncated to "

\* ---------------------------------------------------------------- delegate
\* C16: createConversation returns a log that is exactly one user message
\* with the task, and a tool list that is the given tools in order, followed
\* by the parameterless tool named done exactly when the conversation is not
\* one-shot; the tool list stays as created.
C16_CreateConversation ==
  /\ (phase = "AwaitingModel" /\ iteration = 0) =>
       /\ Len(messages) = 1
       /\ messages[1].role = "user"
       /\ messages[1].content \in Tasks
  /\ phase # "Idle" =>
       /\ Len(tools) = Len(McpTools) + (IF oneShot THEN 0 ELSE 1)
       /\ \A i \in 1..Len(McpTools) :
            tools[i].name = McpTools[i] /\ ~tools[i].noParams
       /\ ~oneShot =>
            tools[Len(tools)].name = "done" /\ tools[Len(tools)].noParams

\* C16 witness: a conversation that is not one-shot has just been created
C16_Witness ==
  /\ phase = "AwaitingModel"
  /\ iteration = 0
  /\ ~oneShot
  /\ Len(tools) = Len(McpTools) + 1

\* C17: checkDoneToolCall yields X for a tool call named done whose arguments
\* are {result: X}, and null for a tool call of any other name: when the
\* calls of a turn are processed, each check is the call's result for a call
\* named done and null otherwise.
C17_CheckDoneToolCall ==
  [][(phase = "ExecutingTools" /\ phase' # "ExecutingTools") =>
       /\ Len(doneChecks') = Len(toolCalls)
       /\ \A k \in 1..Len(toolCalls) :
            IF toolCalls[k].name = "done"
            THEN /\ ~doneChecks'[k].isNull
                 /\ doneChecks'[k].result = toolCalls[k].arguments
            ELSE doneChecks'[k].isNull]_vars

\* C17 witness: a turn with a done call carrying the result X and a call of
\* another name has been processed
C17_Witness ==
  /\ phase = "Done"
  /\ \E k \in 1..Len(doneChecks) :
       ~doneChecks[k].isNull /\ doneChecks[k].result = "X"
  /\ \E k \in 1..Len(doneChecks) : doneChecks[k].isNull

\* C18: the log is append-only: every step leaves the existing messages in
\* place; addToolResults appends one tool message per result handed over, in
\* that order; makeApiCall appends exactly one assistant message when the
\* provider call succeeds and leaves the log unchanged when it fails.
C18_LogAppendOnly ==
  [][/\ Len(messages') >= Len(messages)
     /\ SubSeq(messages', 1, Len(messages)) = messages
     /\ (phase = "ExecutingTools" /\ toolCalls' = <<>>) =>
          /\ Len(messages') = Len(messages) + Len(handedResults')
          /\ \A k \in 1..Len(handedResults') :
               LET m == messages'[Len(messages) + k]
               IN  /\ m.role = "tool"
                   /\ m.toolCallId = handedResults'[k].toolCallId
                   /\ m.content = handedResults'[k].content
                   /\ m.isError = handedResults'[k].isError
     /\ (iteration' # iteration /\ ~apiError') =>
          /\ Len(messages') = Len(messages) + 1
          /\ messages'[Len(messages')].role = "assistant"
     /\ (iteration' # iteration /\ apiError') => messages' = messages
     /\ (phase = "ExecutingTools" /\ toolCalls' # <<>>) => messages' = messages
    ]_vars

\* C18 witness: two tool results were appended in a turn, and the provider
\* call of the next turn failed
C18_Witness ==
  /\ apiError
  /\ Len(handedResults) = 2
  /\ Len(messages) = 4
  /\ messages[3].role = "tool"
  /\ messages[4].role = "tool"
====
